---- MODULE Spec2Model ----
(***************************************************************************)
(* Model of the flash-backed storage engine of the ESP8266 GPS logger      *)
(* (src/src/ESP8266_GPSlogger_SPIflashV2.0_withKML.ino): the META journal  *)
(* of fixed-size records, the DATA log with its page-bounded writer and    *)
(* erase-on-demand, the in-RAM file list rebuilt by loadMetaIndex, and the *)
(* start/stop session logic driven by loop().                              *)
(*                                                                         *)
(* The flash geometry is scaled down: a page is EXT_PAGE_SIZE bytes (256   *)
(* in the source), a sector PagesPerSector pages (16 in the source), the   *)
(* META region MetaSectors sectors (16) and the DATA region DataSectors    *)
(* sectors.  One journal slot is one page, as in the source.  The header   *)
(* line, the start guard, the sample lines and the RAM buffer are scaled   *)
(* with the page so that header < guard < page = flush threshold and the   *)
(* buffer holds two pages.                                                 *)
(***************************************************************************)
EXTENDS Integers, Sequences, FiniteSets, TLC

\* ------------------------------------------------------------ geometry
EXT_PAGE_SIZE == 2
PagesPerSector == 2
MetaSectors == 2
DataSectors == 2
EXT_SECTOR_SIZE == PagesPerSector * EXT_PAGE_SIZE
META_START == 0
META_END == META_START + MetaSectors * EXT_SECTOR_SIZE
DATA_START == META_END
DATA_END == DATA_START + DataSectors * EXT_SECTOR_SIZE
MetaSlots == (META_END - META_START) \div EXT_PAGE_SIZE
MAX_FILES == 3

\* header line of startLogNow, its free-space guard, the flush threshold of
\* logAppend and sizeof(buf), all in units of the scaled page
HeaderLen == 1
StartGuard == HeaderLen + 1
FlushThreshold == EXT_PAGE_SIZE
BufSize == 2 * EXT_PAGE_SIZE
MaxLineLen == 1
MaxTime == 1
MaxEvents == 4

META_MAGIC == 1296389185
META_VER == 1
REC_FINAL == 1
REC_DEL == 2
REC_START == 3

\* an erased scalar field (all bits set, whatever its width), an erased byte
FF == -1
FFByte == 255
HeaderByte == 108
LineByte == 52

\* ------------------------------------------------------------ bit arithmetic
RECURSIVE NatAnd(_, _)
NatAnd(a, b) ==
  IF a = 0 \/ b = 0 THEN 0
  ELSE (IF a % 2 = 1 /\ b % 2 = 1 THEN 1 ELSE 0) + 2 * NatAnd(a \div 2, b \div 2)

\* NOR flash programming can only clear bits: the cell becomes old AND new
BitAnd(a, b) == IF a = FF THEN b ELSE IF b = FF THEN a ELSE NatAnd(a, b)

SeqAnd(s, t) == [i \in DOMAIN s |-> BitAnd(s[i], t[i])]

\* little-endian bytes of a w-byte field
RECURSIVE LEBytes(_, _)
LEBytes(v, w) ==
  IF w = 0 THEN << >>
  ELSE IF v = FF THEN <<FFByte>> \o LEBytes(FF, w - 1)
  ELSE <<v % 256>> \o LEBytes(v \div 256, w - 1)

\* a checksum step with an even multiplier
CrcStepEven(s, b) ==
  LET lo == s[2] * 128 + b
      hi == s[1] * 128 + (lo \div 65536)
  IN  <<hi % 65536, lo % 65536>>

\* uint32 as <<high half, low half>>: s * 131 + b modulo 2^32
CrcStep(s, b) ==
  LET lo == s[2] * 131 + b
      hi == s[1] * 131 + (lo \div 65536)
  IN  <<hi % 65536, lo % 65536>>

RECURSIVE CrcFrom(_, _, _)
CrcFrom(s, p, i) == IF i > Len(p) THEN s ELSE CrcFrom(CrcStep(s, p[i]), p, i + 1)

crcSimple(p) == CrcFrom(<<0, 0>>, p, 1)

ErasedCrc == <<65535, 65535>>

\* ------------------------------------------------------------ META records
NameLen == 2
ErasedName == [i \in 1..NameLen |-> FFByte]
ErasedRec ==
  [magic |-> FF, ver |-> FF, type |-> FF, seq |-> FF, startAddr |-> FF,
   size |-> FF, time |-> FF, name |-> ErasedName, crc |-> ErasedCrc]

\* the fields in the order flashPageProgram shifts them out
FieldOrder == <<"magic", "ver", "type", "seq", "startAddr", "size", "time", "name", "crc">>

\* "GPS_<time>.TXT": the name is the frozen start time, printed
makeName(t) == [i \in 1..NameLen |-> IF i = 1 THEN 71 ELSE 48 + t]
\* nameOrNull = nullptr: name[0] = 0 over the 0xFF fill
NullName == [i \in 1..NameLen |-> IF i = 1 THEN 0 ELSE FFByte]

\* the bytes the checksum covers: every field before crc
CoveredBytes(r) ==
  LEBytes(r.magic, 4) \o LEBytes(r.ver, 2) \o LEBytes(r.type, 2) \o
  LEBytes(r.seq, 4) \o LEBytes(r.startAddr, 4) \o LEBytes(r.size, 4) \o
  LEBytes(r.time, 1) \o r.name

isAllFF(r) == r = ErasedRec

MakeRec(type, seq, startAddr, size, time, name) ==
  LET b == [magic |-> META_MAGIC, ver |-> META_VER, type |-> type, seq |-> seq,
            startAddr |-> startAddr, size |-> size, time |-> time, name |-> name,
            crc |-> ErasedCrc]
  IN  [b EXCEPT !.crc = crcSimple(CoveredBytes(b))]

\* programming rec over what the slot holds
RecAnd(old, rec) ==
  [magic |-> BitAnd(old.magic, rec.magic), ver |-> BitAnd(old.ver, rec.ver),
   type |-> BitAnd(old.type, rec.type), seq |-> BitAnd(old.seq, rec.seq),
   startAddr |-> BitAnd(old.startAddr, rec.startAddr),
   size |-> BitAnd(old.size, rec.size), time |-> BitAnd(old.time, rec.time),
   name |-> SeqAnd(old.name, rec.name), crc |-> SeqAnd(old.crc, rec.crc)]

\* the first k fields of rec, the rest still erased (a write cut by power loss)
RecPrefix(rec, k) ==
  [f \in DOMAIN rec |->
     IF \E i \in 1..k : FieldOrder[i] = f THEN rec[f] ELSE ErasedRec[f]]

SlotOf(addr) == (addr - META_START) \div EXT_PAGE_SIZE
SlotAddr(i) == META_START + i * EXT_PAGE_SIZE

\* ------------------------------------------------------------ state
VARIABLES
  meta,                 \* META region: slot index -> record held by the slot
  data,                 \* DATA region: address -> byte
  files,                \* files[0..fileCount-1], as a sequence
  metaWriteAddr, dataWriteAddr, nextEraseSectorBase,
  logging, pendingStart,
  curStartAddr, curSize, curSeq, curTime, curName,
  buf,                  \* buf[0..bufLen-1], as a sequence
  finalizeNeeded, fullStop,
  gpsValid,             \* gpsTimeValid()
  pc,                   \* the statement of loop() that runs next
  ops,                  \* history: the flash operations the last step issued
  sessionRec,           \* history: the START record of the last session started
  appended,             \* history: bytes handed to logAppend in that session
  assigned,             \* history: highest seq written in a START or DEL record
                        \* since the last fast reset or boot
  events,               \* starts, deletes, fast resets and power losses so far
  sent,                 \* what the last web request streamed to the client
  reads                 \* history: the readLineFromFlash calls of that request

vars == <<meta, data, files, metaWriteAddr, dataWriteAddr, nextEraseSectorBase,
          logging, pendingStart, curStartAddr, curSize, curSeq, curTime, curName,
          buf, finalizeNeeded, fullStop, gpsValid, pc, ops, sessionRec, appended, assigned, events,
          sent, reads>>

\* the globals as one value, so that a C function is an operator on it
Cur ==
  [meta |-> meta, data |-> data, files |-> files,
   metaWriteAddr |-> metaWriteAddr, dataWriteAddr |-> dataWriteAddr,
   nextEraseSectorBase |-> nextEraseSectorBase,
   logging |-> logging, pendingStart |-> pendingStart,
   curStartAddr |-> curStartAddr, curSize |-> curSize, curSeq |-> curSeq,
   curTime |-> curTime, curName |-> curName, buf |-> buf,
   finalizeNeeded |-> finalizeNeeded, fullStop |-> fullStop,
   sessionRec |-> sessionRec, appended |-> appended, assigned |-> assigned,
   ops |-> << >>, ok |-> TRUE]

bufLen == Len(buf)
fileCount == Len(files)

\* ------------------------------------------------------------ flash driver
SectorBase(addr) == (addr \div EXT_SECTOR_SIZE) * EXT_SECTOR_SIZE

EraseData(d, base) ==
  [a \in DOMAIN d |-> IF a >= base /\ a < base + EXT_SECTOR_SIZE THEN FFByte ELSE d[a]]

EraseMeta(mt, base) ==
  [i \in DOMAIN mt |->
     IF SlotAddr(i) >= base /\ SlotAddr(i) < base + EXT_SECTOR_SIZE THEN ErasedRec ELSE mt[i]]

ProgData(d, addr, bytes) ==
  [a \in DOMAIN d |->
     IF a >= addr /\ a < addr + Len(bytes) THEN BitAnd(d[a], bytes[a - addr + 1]) ELSE d[a]]

ProgMeta(mt, addr, rec) ==
  [i \in DOMAIN mt |-> IF i = SlotOf(addr) THEN RecAnd(mt[i], rec) ELSE mt[i]]

flashSectorErase4K(m, sectorBase) ==
  [m EXCEPT !.data = EraseData(@, sectorBase),
            !.meta = EraseMeta(@, sectorBase),
            !.ops = Append(@, [k |-> "erase", a |-> sectorBase, n |-> EXT_SECTOR_SIZE,
                               bytes |-> << >>, rec |-> ErasedRec, blank |-> TRUE])]

\* flashPageProgram into the DATA region; blank records whether every target
\* byte was erased when the program was issued
flashPageProgram(m, addr, bytes) ==
  [m EXCEPT !.data = ProgData(@, addr, bytes),
            !.ops = Append(@, [k |-> "prog", a |-> addr, n |-> Len(bytes),
                               bytes |-> bytes, rec |-> ErasedRec,
                               blank |-> \A a \in addr..(addr + Len(bytes) - 1) :
                                           a \in DOMAIN m.data /\ m.data[a] = FFByte])]

\* flashPageProgram of one 256-byte record into the META region
flashPageProgramRec(m, addr, rec) ==
  [m EXCEPT !.meta = ProgMeta(@, addr, rec),
            !.ops = Append(@, [k |-> "meta", a |-> addr, n |-> EXT_PAGE_SIZE,
                               bytes |-> << >>, rec |-> rec,
                               blank |-> SlotOf(addr) \in DOMAIN m.meta
                                         /\ isAllFF(m.meta[SlotOf(addr)])])]

\* ------------------------------------------------------------ DATA writer
\* an eraser that trusts the sector the address lies in
ensureErasedBehind(m, addr) ==
  IF m.nextEraseSectorBase < SectorBase(addr) /\ m.nextEraseSectorBase < DATA_END
  THEN [flashSectorErase4K(m, m.nextEraseSectorBase)
          EXCEPT !.nextEraseSectorBase = @ + EXT_SECTOR_SIZE]
  ELSE m

RECURSIVE ensureErasedForAddr(_, _)
ensureErasedForAddr(m, addr) ==
  IF m.nextEraseSectorBase <= SectorBase(addr) /\ m.nextEraseSectorBase < DATA_END
  THEN ensureErasedForAddr(
         [flashSectorErase4K(m, m.nextEraseSectorBase)
            EXCEPT !.nextEraseSectorBase = @ + EXT_SECTOR_SIZE], addr)
  ELSE m

RegionFull(m) == [m EXCEPT !.logging = FALSE, !.finalizeNeeded = TRUE, !.fullStop = TRUE]

Min(a, b) == IF a < b THEN a ELSE b

\* dataWriteStream(dataWriteAddr, bytes, Len(bytes)): both callers pass the
\* global dataWriteAddr by reference
RECURSIVE dataWriteStreamPastEnd(_, _)
\* a writer that knows no end of the region
dataWriteStreamPastEnd(m, bytes) ==
  IF Len(bytes) = 0 THEN m
  ELSE
    LET m1 == ensureErasedForAddr(m, m.dataWriteAddr)
        addr == m1.dataWriteAddr
        chunk == Min(Len(bytes), EXT_PAGE_SIZE - (addr % EXT_PAGE_SIZE))
    IN  dataWriteStreamPastEnd(
          [flashPageProgram(m1, addr, SubSeq(bytes, 1, chunk))
             EXCEPT !.dataWriteAddr = @ + chunk, !.curSize = @ + chunk],
          SubSeq(bytes, chunk + 1, Len(bytes)))

RECURSIVE dataWriteStream(_, _)
\* a writer that hands the whole input to one page program
dataWriteStreamNoSplit(m, bytes) ==
  IF Len(bytes) = 0 THEN m
  ELSE IF m.dataWriteAddr >= DATA_END THEN RegionFull(m)
  ELSE
    LET m1 == ensureErasedForAddr(m, m.dataWriteAddr)
        addr == m1.dataWriteAddr
        chunk == IF addr + Len(bytes) > DATA_END THEN DATA_END - addr ELSE Len(bytes)
    IN  IF chunk = 0 THEN RegionFull(m1)
        ELSE
          LET m2 == [flashPageProgram(m1, addr, SubSeq(bytes, 1, chunk))
                       EXCEPT !.dataWriteAddr = @ + chunk, !.curSize = @ + chunk]
          IN  IF m2.dataWriteAddr >= DATA_END THEN RegionFull(m2)
              ELSE dataWriteStream(m2, SubSeq(bytes, chunk + 1, Len(bytes)))

dataWriteStream(m, bytes) ==
  IF Len(bytes) = 0 THEN m
  ELSE IF m.dataWriteAddr >= DATA_END THEN RegionFull(m)
  ELSE
    LET m1 == ensureErasedForAddr(m, m.dataWriteAddr)
        addr == m1.dataWriteAddr
        pageOff == addr % EXT_PAGE_SIZE
        room == EXT_PAGE_SIZE - pageOff
        chunk0 == Min(Len(bytes), room)
        chunk == IF addr + chunk0 > DATA_END THEN DATA_END - addr ELSE chunk0
    IN  IF chunk = 0 THEN RegionFull(m1)
        ELSE
          LET m2 == [flashPageProgram(m1, addr, SubSeq(bytes, 1, chunk))
                       EXCEPT !.dataWriteAddr = @ + chunk, !.curSize = @ + chunk]
          IN  IF m2.dataWriteAddr >= DATA_END THEN RegionFull(m2)
              ELSE dataWriteStream(m2, SubSeq(bytes, chunk + 1, Len(bytes)))

RECURSIVE AppendLoop(_, _)
\* the while loop of logAppend
AppendLoop(m, bytes) ==
  IF ~m.logging \/ Len(bytes) = 0 THEN m
  ELSE
    LET space == BufSize - Len(m.buf)
        n == Min(Len(bytes), space)
        m1 == [m EXCEPT !.buf = @ \o SubSeq(bytes, 1, n)]
        m2 == IF Len(m1.buf) >= FlushThreshold
              THEN [dataWriteStream(m1, m1.buf) EXCEPT !.buf = << >>]
              ELSE m1
    IN  AppendLoop(m2, SubSeq(bytes, n + 1, Len(bytes)))

logAppend(m, bytes) ==
  IF ~m.logging \/ Len(bytes) = 0 THEN m
  ELSE AppendLoop([m EXCEPT !.appended = @ + Len(bytes)], bytes)

\* a flush that writes the buffer and keeps its length
flushLogKeepsLength(m) ==
  IF Len(m.buf) > 0 THEN dataWriteStream(m, m.buf) ELSE m

flushLog(m) ==
  IF Len(m.buf) > 0 THEN [dataWriteStream(m, m.buf) EXCEPT !.buf = << >>] ELSE m

\* ------------------------------------------------------------ META writer
\* an append that refuses only behind the end of the journal
writeMetaRecordLate(m, type, seq, startAddr, size, time, name) ==
  IF m.metaWriteAddr > META_END THEN [m EXCEPT !.ok = FALSE]
  ELSE [flashPageProgramRec(m, m.metaWriteAddr,
                            MakeRec(type, seq, startAddr, size, time, name))
          EXCEPT !.metaWriteAddr = @ + EXT_PAGE_SIZE, !.ok = TRUE,
                 !.assigned = IF type # REC_FINAL /\ seq > @ THEN seq ELSE @]

writeMetaRecord(m, type, seq, startAddr, size, time, name) ==
  IF m.metaWriteAddr + EXT_PAGE_SIZE > META_END THEN [m EXCEPT !.ok = FALSE]
  ELSE [flashPageProgramRec(m, m.metaWriteAddr,
                            MakeRec(type, seq, startAddr, size, time, name))
          EXCEPT !.metaWriteAddr = @ + EXT_PAGE_SIZE, !.ok = TRUE,
                 !.assigned = IF type # REC_FINAL /\ seq > @ THEN seq ELSE @]

\* valid is gpsTimeValid(), now the time the GPS reports
writeMetaRecord_DEL(m, targetSeq, valid, now) ==
  LET delSeq == m.curSeq + 1
  IN  writeMetaRecord([m EXCEPT !.curSeq = delSeq], REC_DEL, delSeq, targetSeq, 0,
                      IF valid THEN now ELSE 0, NullName)

\* ------------------------------------------------------------ file list
RECURSIVE findIndexBySeq(_, _)
\* index (from 1) of the first entry with this seq, 0 for the source's -1
findIndexBySeq(fs, seq) ==
  IF fs = << >> THEN 0
  ELSE IF Head(fs).seq = seq THEN 1
  ELSE LET r == findIndexBySeq(Tail(fs), seq) IN IF r = 0 THEN 0 ELSE r + 1

removeBySeq(fs, seq) ==
  LET i == findIndexBySeq(fs, seq)
  IN  IF i = 0 THEN fs ELSE SubSeq(fs, 1, i - 1) \o SubSeq(fs, i + 1, Len(fs))

EntryOf(rec, size, incomplete) ==
  [seq |-> rec.seq, startAddr |-> rec.startAddr, size |-> size,
   time |-> rec.time, name |-> rec.name, incomplete |-> incomplete]

\* the bytes of a programmed slot as flashReadBytes returns them
SlotBytes(rec) == CoveredBytes(rec) \o LEBytes(rec.crc[2], 2) \o LEBytes(rec.crc[1], 2)

\* flashReadBytes of one byte for estimateSizeFromData.  The last chunk of a
\* scan may run past DATA_END = FLASH_SIZE_BYTES; a W25Q read then continues
\* at address 0, the first slot of META.
ReadByte(m, addr) ==
  IF addr < DATA_END THEN m.data[addr]
  ELSE LET b == SlotBytes(m.meta[0])
           i == addr - DATA_END + 1
       IN  IF i <= Len(b) THEN b[i] ELSE FFByte

EstimateChunk == EXT_PAGE_SIZE

RECURSIVE ScanFF(_, _, _)
\* estimateSizeFromData, from chunk address addr on
ScanFF(m, startAddr, addr) ==
  IF addr >= DATA_END THEN DATA_END - startAddr
  ELSE
    LET hit == {i \in 0..(EstimateChunk - 1) : ReadByte(m, addr + i) = FFByte}
    IN  IF hit # {}
        THEN (addr - startAddr) + (CHOOSE i \in hit : \A j \in hit : i <= j)
        ELSE ScanFF(m, startAddr, addr + EstimateChunk)

estimateSizeFromData(m, startAddr) == ScanFF(m, startAddr, startAddr)

RecValid(rec) ==
  /\ ~isAllFF(rec)
  /\ rec.magic = META_MAGIC /\ rec.ver = META_VER
  /\ rec.crc = crcSimple(CoveredBytes(rec))

ApplyStart(fs, rec) ==
  IF findIndexBySeq(fs, rec.seq) = 0 /\ Len(fs) < MAX_FILES
  THEN Append(fs, EntryOf(rec, 0, TRUE))
  ELSE fs

ApplyFinal(fs, rec) ==
  LET idx == findIndexBySeq(fs, rec.seq)
  IN  IF idx > 0 THEN [fs EXCEPT ![idx] = EntryOf(rec, rec.size, FALSE)]
      ELSE IF Len(fs) < MAX_FILES THEN Append(fs, EntryOf(rec, rec.size, FALSE))
      ELSE fs

RECURSIVE ScanMeta(_, _, _)
\* a replay that steps over a slot it cannot use and resumes behind it
ScanMetaSkipping(mt, i, acc) ==
  IF i >= MetaSlots THEN acc
  ELSE
    LET rec == mt[i]
        a1 == [acc EXCEPT !.curSeq = IF rec.seq > @ THEN rec.seq ELSE @]
    IN  IF ~RecValid(rec) THEN ScanMeta(mt, i + 1, acc)
        ELSE IF rec.type = REC_START
          THEN ScanMeta(mt, i + 1, [a1 EXCEPT !.files = ApplyStart(@, rec)])
        ELSE IF rec.type = REC_FINAL
          THEN ScanMeta(mt, i + 1, [a1 EXCEPT !.files = ApplyFinal(@, rec)])
        ELSE IF rec.type = REC_DEL
          THEN ScanMeta(mt, i + 1, [a1 EXCEPT !.files = removeBySeq(@, rec.startAddr)])
        ELSE ScanMeta(mt, i + 1, acc)

\* the for loop of loadMetaIndex from slot i on; acc holds fileCount/files,
\* curSeq and metaWriteAddr
ScanMeta(mt, i, acc) ==
  IF i >= MetaSlots THEN acc
  ELSE
    LET rec == mt[i]
        stop == [acc EXCEPT !.metaWriteAddr = SlotAddr(i)]
    IN  IF ~RecValid(rec) THEN stop
        ELSE
          LET a1 == [acc EXCEPT !.curSeq = IF rec.seq > @ THEN rec.seq ELSE @]
          IN  IF rec.type = REC_START
                THEN ScanMeta(mt, i + 1, [a1 EXCEPT !.files = ApplyStart(@, rec)])
              ELSE IF rec.type = REC_FINAL
                THEN ScanMeta(mt, i + 1, [a1 EXCEPT !.files = ApplyFinal(@, rec)])
              ELSE IF rec.type = REC_DEL
                THEN ScanMeta(mt, i + 1, [a1 EXCEPT !.files = removeBySeq(@, rec.startAddr)])
              ELSE [a1 EXCEPT !.metaWriteAddr = SlotAddr(i)]

\* sizes of the incomplete entries
FixupSizes(m, fs) ==
  [i \in DOMAIN fs |->
     IF fs[i].incomplete
     THEN [fs[i] EXCEPT !.size = estimateSizeFromData(m, fs[i].startAddr)]
     ELSE fs[i]]

\* the end of the last entry of the list, not the highest end
MaxEndOfLast(fs, acc) ==
  IF fs = << >> THEN acc
  ELSE fs[Len(fs)].startAddr + fs[Len(fs)].size

RECURSIVE MaxEnd(_, _)
MaxEnd(fs, acc) ==
  IF fs = << >> THEN acc
  ELSE LET endAddr == Head(fs).startAddr + Head(fs).size
       IN  MaxEnd(Tail(fs), IF endAddr > acc THEN endAddr ELSE acc)

\* a replay that resumes at the journal cursor it is handed
loadMetaIndexFromCursor(m) ==
  LET acc == ScanMeta(m.meta, SlotOf(m.metaWriteAddr),
                      [files |-> << >>, curSeq |-> 0, metaWriteAddr |-> META_START])
      fs == FixupSizes(m, acc.files)
      dwa == MaxEnd(fs, DATA_START)
      nes == SectorBase(dwa)
  IN  [m EXCEPT !.files = fs, !.curSeq = acc.curSeq,
                !.metaWriteAddr = acc.metaWriteAddr,
                !.dataWriteAddr = dwa,
                !.nextEraseSectorBase = IF nes < DATA_START THEN DATA_START ELSE nes]

loadMetaIndex(m) ==
  LET acc == ScanMeta(m.meta, 0,
                      [files |-> << >>, curSeq |-> 0, metaWriteAddr |-> META_START])
      fs == FixupSizes(m, acc.files)
      dwa == MaxEnd(fs, DATA_START)
      nes == SectorBase(dwa)
  IN  [m EXCEPT !.files = fs, !.curSeq = acc.curSeq,
                !.metaWriteAddr = acc.metaWriteAddr,
                !.dataWriteAddr = dwa,
                !.nextEraseSectorBase = IF nes < DATA_START THEN DATA_START ELSE nes]

\* ------------------------------------------------------------ sessions
Header == [i \in 1..HeaderLen |-> HeaderByte]
Line(n) == [i \in 1..n |-> LineByte]

\* valid is gpsTimeValid(), now the time the GPS reports
startLogNow(m, valid, now) ==
  IF ~valid THEN [m EXCEPT !.pendingStart = TRUE]
  ELSE IF m.metaWriteAddr + EXT_PAGE_SIZE > META_END THEN m
  ELSE IF m.dataWriteAddr + StartGuard > DATA_END THEN m
  ELSE
    LET m1 == [m EXCEPT !.logging = TRUE, !.pendingStart = FALSE,
                        !.finalizeNeeded = FALSE, !.fullStop = FALSE,
                        !.buf = << >>,
                        !.curStartAddr = m.dataWriteAddr, !.curSize = 0,
                        !.curTime = now, !.curName = makeName(now),
                        !.curSeq = @ + 1, !.appended = 0]
        m2 == writeMetaRecord(m1, REC_START, m1.curSeq, m1.curStartAddr, 0,
                              m1.curTime, m1.curName)
    IN  IF ~m2.ok THEN [m2 EXCEPT !.logging = FALSE]
        ELSE
          LET nes == SectorBase(m2.dataWriteAddr)
              m3 == [m2 EXCEPT !.nextEraseSectorBase =
                                  IF nes < DATA_START THEN DATA_START ELSE nes,
                               !.sessionRec = m2.ops[Len(m2.ops)].rec]
          IN  flushLog(logAppend(m3, Header))

finalizeCurrentLog(m) ==
  LET m1 == [flushLog(m) EXCEPT !.logging = FALSE, !.pendingStart = FALSE]
      m2 == writeMetaRecord(m1, REC_FINAL, m1.curSeq, m1.curStartAddr, m1.curSize,
                            m1.curTime, m1.curName)
  IN  loadMetaIndex(m2)

stopLogNow(m) == finalizeCurrentLog(m)

RECURSIVE EraseMetaFrom(_, _)
EraseMetaFrom(m, a) ==
  IF a >= META_END THEN m
  ELSE EraseMetaFrom(flashSectorErase4K(m, a), a + EXT_SECTOR_SIZE)

eraseAllQuick(m) ==
  LET m1 == IF m.logging THEN [flushLog(m) EXCEPT !.logging = FALSE] ELSE m
      m2 == [m1 EXCEPT !.pendingStart = FALSE, !.finalizeNeeded = FALSE,
                       !.fullStop = FALSE]
  IN  [EraseMetaFrom(m2, META_START)
         EXCEPT !.metaWriteAddr = META_START, !.dataWriteAddr = DATA_START,
                !.nextEraseSectorBase = DATA_START, !.curSeq = 0, !.files = << >>,
                !.assigned = 0]

\* ------------------------------------------------------------ power loss
NumFields == Len(FieldOrder)

ApplyOp(fl, op) ==
  IF op.k = "erase"
    THEN [meta |-> EraseMeta(fl.meta, op.a), data |-> EraseData(fl.data, op.a)]
  ELSE IF op.k = "prog"
    THEN [fl EXCEPT !.data = ProgData(@, op.a, op.bytes)]
  ELSE [fl EXCEPT !.meta = ProgMeta(@, op.a, op.rec)]

\* the operation cut after j bytes (DATA) or j fields (META); a sector erase
\* has happened or has not
PartialOp(fl, op, j) ==
  IF op.k = "erase" THEN fl
  ELSE IF op.k = "prog"
    THEN [fl EXCEPT !.data = ProgData(@, op.a, SubSeq(op.bytes, 1, j))]
  ELSE [fl EXCEPT !.meta = ProgMeta(@, op.a, RecPrefix(op.rec, j))]

OpSize(op) == IF op.k = "erase" THEN 1 ELSE IF op.k = "prog" THEN op.n ELSE NumFields

RECURSIVE ApplyOps(_, _, _)
ApplyOps(fl, o, k) == IF k = 0 THEN fl ELSE ApplyOp(ApplyOps(fl, o, k - 1), o[k])

\* what the flash may hold when power fails while the operations o are issued
CrashFlashes(fl, o) ==
  UNION {{PartialOp(ApplyOps(fl, o, k), o[k + 1], j) : j \in 0..(OpSize(o[k + 1]) - 1)} :
           k \in 0..(Len(o) - 1)}

\* the globals as their initializers leave them, over the given flash
Ram0(fl) ==
  [meta |-> fl.meta, data |-> fl.data, files |-> << >>,
   metaWriteAddr |-> META_START, dataWriteAddr |-> DATA_START,
   nextEraseSectorBase |-> DATA_START,
   logging |-> FALSE, pendingStart |-> FALSE,
   curStartAddr |-> 0, curSize |-> 0, curSeq |-> 0, curTime |-> 0,
   curName |-> [i \in 1..NameLen |-> 0], buf |-> << >>,
   finalizeNeeded |-> FALSE, fullStop |-> FALSE,
   sessionRec |-> ErasedRec, appended |-> 0, assigned |-> 0,
   ops |-> << >>, ok |-> TRUE]

\* setup(): loadMetaIndex over whatever the flash holds
setup(fl) == loadMetaIndex(Ram0(fl))

\* a step's operations as the history variable keeps them: kind, address,
\* length, the record of a META program and whether the target was erased
Issued(o) ==
  [i \in DOMAIN o |->
     [k |-> o[i].k, a |-> o[i].a, n |-> o[i].n, rec |-> o[i].rec, blank |-> o[i].blank]]

Commit(m, nextpc) ==
  /\ meta' = m.meta /\ data' = m.data /\ files' = m.files
  /\ metaWriteAddr' = m.metaWriteAddr /\ dataWriteAddr' = m.dataWriteAddr
  /\ nextEraseSectorBase' = m.nextEraseSectorBase
  /\ logging' = m.logging /\ pendingStart' = m.pendingStart
  /\ curStartAddr' = m.curStartAddr /\ curSize' = m.curSize /\ curSeq' = m.curSeq
  /\ curTime' = m.curTime /\ curName' = m.curName /\ buf' = m.buf
  /\ finalizeNeeded' = m.finalizeNeeded /\ fullStop' = m.fullStop
  /\ ops' = Issued(m.ops)
  /\ sessionRec' = m.sessionRec /\ appended' = m.appended /\ assigned' = m.assigned
  /\ sent' = << >> /\ reads' = << >>
  /\ pc' = nextpc

ErasedFlash ==
  [meta |-> [i \in 0..(MetaSlots - 1) |-> ErasedRec],
   data |-> [a \in DATA_START..(DATA_END - 1) |-> FFByte]]

\* the variables hold the globals m, at the statement p of loop()
Loaded(m, p) ==
  /\ meta = m.meta /\ data = m.data /\ files = m.files
  /\ metaWriteAddr = m.metaWriteAddr /\ dataWriteAddr = m.dataWriteAddr
  /\ nextEraseSectorBase = m.nextEraseSectorBase
  /\ logging = m.logging /\ pendingStart = m.pendingStart
  /\ curStartAddr = m.curStartAddr /\ curSize = m.curSize /\ curSeq = m.curSeq
  /\ curTime = m.curTime /\ curName = m.curName /\ buf = m.buf
  /\ finalizeNeeded = m.finalizeNeeded /\ fullStop = m.fullStop
  /\ ops = << >>
  /\ sessionRec = m.sessionRec /\ appended = m.appended /\ assigned = m.assigned
  /\ sent = << >> /\ reads = << >>
  /\ pc = p
  /\ gpsValid = FALSE
  /\ events = 0

\* the flash as shipped, then setup()
Init == Loaded(setup(ErasedFlash), "idle")

\* ------------------------------------------------------------ loop()
Times == 1..MaxTime

\* what each statement of loop() does to the globals, by its inputs
\* a button that starts a session whatever runs
OnLogButtonStartsAnyway(m, now) ==
  IF gpsValid THEN startLogNow(m, TRUE, now) ELSE [m EXCEPT !.pendingStart = TRUE]

OnLogButton(m, now) ==
  IF ~m.logging /\ ~m.pendingStart
  THEN IF gpsValid THEN startLogNow(m, TRUE, now) ELSE [m EXCEPT !.pendingStart = TRUE]
  ELSE IF m.logging THEN stopLogNow(m) ELSE [m EXCEPT !.pendingStart = FALSE]

OnPending(m, now) ==
  IF m.pendingStart /\ gpsValid THEN startLogNow(m, TRUE, now) ELSE m

OnDelete(m, idx, now) ==
  LET m1 == writeMetaRecord_DEL(m, m.files[idx + 1].seq, gpsValid, now)
  IN  IF ~m1.ok THEN m1 ELSE loadMetaIndex(m1)

OnEraseAll(m) == loadMetaIndex(eraseAllQuick(m))

\* tryLogOneLinePerSecond with a line of n bytes; timer is whether 1500 ms
\* have passed since the last timed flush
OnSample(m, n, timer) ==
  LET m1 == logAppend(m, Line(n))
  IN  IF timer THEN flushLog(m1) ELSE m1

OnFinalize(m) ==
  IF m.finalizeNeeded THEN finalizeCurrentLog([m EXCEPT !.finalizeNeeded = FALSE]) ELSE m

\* loop() runs its statements in the order btn, pend, client, log, fin.  The
\* button, the web client and the GPS sample are inputs that may be absent, so
\* when neither the pending-start test nor the finalize test has work to do
\* (Quiet) every order of the input statements is one the loop can produce by
\* iterating with absent inputs, and pc is "idle".  Otherwise pc is the
\* statement that runs next.
Quiet(m, valid) == ~m.finalizeNeeded /\ ~(m.pendingStart /\ valid)

After(p) ==
  IF p = "btn" THEN "pend" ELSE IF p = "pend" THEN "client"
  ELSE IF p = "client" THEN "log" ELSE IF p = "log" THEN "fin" ELSE "btn"

NextPc(m, p) == IF Quiet(m, gpsValid) THEN "idle" ELSE After(p)

At(p) == pc = p \/ pc = "idle"

Step(m, p) == Commit(m, NextPc(m, p)) /\ UNCHANGED <<gpsValid, events>>

\* a step that counts against the budget of events
Event(m, p) ==
  /\ events < MaxEvents
  /\ Commit(m, NextPc(m, p))
  /\ events' = events + 1
  /\ UNCHANGED gpsValid

\* the GPS reports date and time; TinyGPS++ never withdraws validity
GpsFix ==
  /\ At("btn") /\ ~gpsValid
  /\ gpsValid' = TRUE
  /\ ops' = << >>
  /\ pc' = IF Quiet(Cur, TRUE) THEN "idle" ELSE "btn"
  /\ UNCHANGED <<meta, data, files, metaWriteAddr, dataWriteAddr, nextEraseSectorBase,
                 logging, pendingStart, curStartAddr, curSize, curSeq, curTime,
                 curName, buf, finalizeNeeded, fullStop, sessionRec, appended,
                 assigned, events, sent, reads>>

\* the button starts a session ...
LogButtonStart ==
  /\ At("btn") /\ ~logging
  /\ \E now \in Times : Event(OnLogButton(Cur, now), "btn")

\* ... or stops the one that runs
LogButtonStop ==
  /\ At("btn") /\ logging
  /\ \E now \in Times : Step(OnLogButton(Cur, now), "btn")

NoButton == pc = "btn" /\ Step(Cur, "btn")

PendingCheck == pc = "pend" /\ \E now \in Times : Step(OnPending(Cur, now), "pend")

Delete ==
  /\ At("client")
  /\ \E idx \in 0..(fileCount - 1), now \in Times : Event(OnDelete(Cur, idx, now), "client")

EraseAll == At("client") /\ Event(OnEraseAll(Cur), "client")

NoRequest == pc = "client" /\ Step(Cur, "client")

Sample ==
  /\ At("log")
  /\ logging /\ gpsValid
  /\ \E n \in 1..MaxLineLen, timer \in BOOLEAN : Step(OnSample(Cur, n, timer), "log")

NoSample == pc = "log" /\ Step(Cur, "log")

FinalizeCheck == pc = "fin" /\ Step(OnFinalize(Cur), "fin")

\* every result the statement that runs next can have, over all its inputs:
\* the statements that start, feed and end a session, and the web requests
SessionOutcomes ==
  (IF At("btn") THEN {OnLogButton(Cur, now) : now \in Times} ELSE {}) \cup
  (IF pc = "pend" THEN {OnPending(Cur, now) : now \in Times} ELSE {}) \cup
  (IF At("log") /\ logging /\ gpsValid
   THEN {OnSample(Cur, n, timer) : n \in 1..MaxLineLen, timer \in BOOLEAN}
   ELSE {}) \cup
  (IF pc = "fin" THEN {OnFinalize(Cur)} ELSE {})

ClientOutcomes ==
  IF At("client")
  THEN {OnEraseAll(Cur)} \cup
       {OnDelete(Cur, idx, now) : idx \in 0..(fileCount - 1), now \in Times}
  ELSE {}

Outcomes == SessionOutcomes \cup ClientOutcomes

Reboot(fl) ==
  /\ Commit(setup(fl), "idle")
  /\ gpsValid' = FALSE
  /\ events' = events + 1

\* power fails between two statements of loop()
PowerLoss == events < MaxEvents /\ Reboot([meta |-> meta, data |-> data])

\* power fails inside a statement with one of the results in S, while it
\* erases or programs
CrashOf(S) ==
  /\ events < MaxEvents
  /\ \E m \in S :
       \E fl \in CrashFlashes([meta |-> meta, data |-> data], m.ops) :
         Reboot(fl)

PowerLossDuring == CrashOf(Outcomes)

Next ==
  \/ GpsFix \/ LogButtonStart \/ LogButtonStop \/ NoButton \/ PendingCheck
  \/ Delete \/ EraseAll \/ NoRequest
  \/ Sample \/ NoSample \/ FinalizeCheck
  \/ PowerLoss \/ PowerLossDuring

Spec == Init /\ [][Next]_vars

\* ------------------------------------------------------------ replay alone
\* loadMetaIndex as a function of the flash: the first MaxWritten slots of
\* the journal hold any records of RecAlphabet, the DATA region starts with
\* up to MaxData programmed bytes.
MaxWritten == 3
MaxData == 3

SampleSeqs == 1..2
SampleStart(s) == MakeRec(REC_START, s, DATA_START + (s - 1), 0, 1, makeName(1))
SampleFinal(s) == MakeRec(REC_FINAL, s, DATA_START + (s - 1), 1, 1, makeName(1))
SampleDel(s) == MakeRec(REC_DEL, 3, s, 0, 0, NullName)

\* a record with a good checksum and a type the program does not know, and
\* records that fail the magic, the version or the checksum test
UnknownTypeRec == MakeRec(4, 5, DATA_START, 0, 1, makeName(1))
BadMagicRec == [SampleStart(1) EXCEPT !.magic = 0]
BadVerRec == [SampleStart(1) EXCEPT !.ver = 0]
BadCrcRec == [SampleFinal(2) EXCEPT !.crc = <<0, 0>>]
TornRec == RecPrefix(SampleStart(2), 4)

RecAlphabet ==
  {ErasedRec, UnknownTypeRec, BadMagicRec, BadVerRec, BadCrcRec, TornRec} \cup
  {SampleStart(s) : s \in SampleSeqs} \cup {SampleFinal(s) : s \in SampleSeqs} \cup
  {SampleDel(s) : s \in SampleSeqs}

Journals ==
  {[i \in 0..(MetaSlots - 1) |-> IF i < MaxWritten THEN f[i] ELSE ErasedRec] :
     f \in [0..(MaxWritten - 1) -> RecAlphabet]}

DataImages ==
  {[a \in DATA_START..(DATA_END - 1) |-> IF a < DATA_START + n THEN LineByte ELSE FFByte] :
     n \in 0..MaxData}

\* a record replay applies to the file list
Applies(rec) == RecValid(rec) /\ rec.type \in {REC_START, REC_FINAL, REC_DEL}

\* the first slot replay does not apply, MetaSlots when it applies all
FirstInvalid(mt) ==
  IF \A i \in DOMAIN mt : Applies(mt[i]) THEN MetaSlots
  ELSE CHOOSE i \in DOMAIN mt : ~Applies(mt[i]) /\ \A j \in 0..(i - 1) : Applies(mt[j])

\* the journal with every slot from k on erased
Truncated(mt, k) == [i \in DOMAIN mt |-> IF i < k THEN mt[i] ELSE ErasedRec]

ReplayInit ==
  \E mt \in Journals, d \in DataImages : Loaded(setup([meta |-> mt, data |-> d]), "boot")

\* loadMetaIndex once more, over the same flash
ReplayAgain ==
  /\ pc = "boot"
  /\ Commit(loadMetaIndex(Cur), "again")
  /\ UNCHANGED <<gpsValid, events>>

\* one slot at or after the first slot replay does not apply gets other
\* contents, which replay does not apply either when it is that first slot;
\* then the device boots
AlterSuffix ==
  /\ pc = "boot"
  /\ FirstInvalid(meta) < MetaSlots
  /\ \E j \in FirstInvalid(meta)..(MetaSlots - 1), r \in RecAlphabet :
       /\ j = FirstInvalid(meta) => ~Applies(r)
       /\ meta[j] # r
       /\ Commit(setup([meta |-> [meta EXCEPT ![j] = r], data |-> data]), "altered")
  /\ UNCHANGED <<gpsValid, events>>

ReplayNext == ReplayAgain \/ AlterSuffix

ReplaySpec == ReplayInit /\ [][ReplayNext]_vars

\* ------------------------------------------------------------ properties
Range(e) == e.startAddr..(e.startAddr + e.size - 1)

OpRange(op) == op.a..(op.a + op.n - 1)

\* the step erases or programs no byte of the entry's range
Untouched(e) ==
  /\ \A a \in Range(e) \cap DOMAIN data : data'[a] = data[a]
  /\ \A i \in DOMAIN ops' : OpRange(ops'[i]) \cap Range(e) = {}

\* C1: no step erases or programs a byte in the range of a file that is
\* complete and that the file list still holds after the step.
C1_FinalizedBytesUntouched ==
  [][\A i \in DOMAIN files : \A j \in DOMAIN files' :
       (~files[i].incomplete /\ files'[j] = files[i]) => Untouched(files[i])]_vars

\* power fails at a point of a session: while it is started, while it logs or
\* while it is finalized
SessionPowerLoss ==
  \/ (logging \/ finalizeNeeded) /\ PowerLoss
  \/ CrashOf(SessionOutcomes)

\* C2: after a power loss at any point of a session and the replay of the
\* reboot, every file that was complete is still in the file list with the
\* same seq, startAddr, size and complete status.
C2_CompleteFilesSurvivePowerLoss ==
  [][SessionPowerLoss =>
       \A i \in DOMAIN files :
         ~files[i].incomplete => \E j \in DOMAIN files' : files'[j] = files[i]]_vars

\* C3: replay is idempotent: loadMetaIndex run again over unchanged flash
\* yields the same file list (entries, order, fields), the same journal
\* cursor, the same DATA cursor and the same seq counter.
C3_ReplayIdempotent ==
  [][pc' = "again" =>
       /\ files' = files
       /\ metaWriteAddr' = metaWriteAddr
       /\ dataWriteAddr' = dataWriteAddr
       /\ curSeq' = curSeq]_vars

\* a second replay over a journal that lists a complete and an incomplete file
C3_Witness ==
  /\ pc = "again"
  /\ \E i \in DOMAIN files : files[i].incomplete /\ files[i].size > 0
  /\ \E i \in DOMAIN files : ~files[i].incomplete

\* C4: with the valid records in slots 0..k-1 and slot k the first one replay
\* does not apply, other contents in a slot at or after k (slot k staying one
\* replay does not apply) leave the file list replay derives unchanged.
C4_SuffixDoesNotMatter == [][pc' = "altered" => files' = files]_vars

\* a non-empty file list below a first invalid slot that has a record replay
\* would apply somewhere behind it
C4_Witness ==
  /\ pc = "altered"
  /\ files # << >>
  /\ \E j \in DOMAIN meta : j > FirstInvalid(meta) /\ Applies(meta[j])

\* C5: replay stops at the first slot that is erased, has a wrong magic or
\* version, fails its checksum or has an unknown type: the journal cursor is
\* that slot, and the file list and the seq counter are those of the journal
\* with every slot from there on erased.
C5_ReplayStopsAtFirstInvalid ==
  LET k == FirstInvalid(meta)
      t == setup([meta |-> Truncated(meta, k), data |-> data])
  IN  k < MetaSlots =>
        /\ metaWriteAddr = SlotAddr(k)
        /\ files = t.files
        /\ curSeq = t.curSeq

\* the journal records the step programmed, of the given types
Written(types) ==
  {ops'[i].rec : i \in {j \in DOMAIN ops' : ops'[j].k = "meta" /\ ops'[j].rec.type \in types}}

\* C6: once a DEL record that targets seq S has been appended, the replay
\* that follows returns no file list entry with seq S.
C6_TombstoneLaw ==
  [][\A r \in Written({REC_DEL}) : \A j \in DOMAIN files' : files'[j].seq # r.startAddr]_vars

\* C7: every newly assigned id (the seq of a START record, the own seq of a
\* DEL record) is greater than every id assigned before it.
C7_MonotonicSeq ==
  [][\A r \in Written({REC_START, REC_DEL}) : r.seq > assigned]_vars

\* C8: the FINAL record appended at finalize carries the seq, startAddr,
\* timestamp and name of the START record of the session it ends.
C8_FinalMatchesStart ==
  [][\A r \in Written({REC_FINAL}) :
       /\ r.seq = sessionRec.seq
       /\ r.startAddr = sessionRec.startAddr
       /\ r.time = sessionRec.time
       /\ r.name = sessionRec.name]_vars

\* the slots replay applies hold a record of this type and seq
Holds(mt, type, seq) ==
  \E i \in 0..(FirstInvalid(mt) - 1) : mt[i].type = type /\ mt[i].seq = seq

\* C9: after the stop request that ends a session (no power loss since its
\* start) the journal holds a START and a FINAL record for its seq and the
\* file list has it as a complete entry whose size is the number of payload
\* bytes appended during the session.
C9_StopListsCompleteSession ==
  [][LogButtonStop =>
       /\ Holds(meta', REC_START, sessionRec.seq)
       /\ Holds(meta', REC_FINAL, sessionRec.seq)
       /\ \E j \in DOMAIN files' :
            /\ files'[j].seq = sessionRec.seq
            /\ ~files'[j].incomplete
            /\ files'[j].size = appended]_vars

\* the journal shows the START record of the running session, and neither a
\* FINAL record for its seq nor a DEL record that targets it
StartOnly ==
  /\ \E i \in 0..(FirstInvalid(meta) - 1) : meta[i] = sessionRec
  /\ ~Holds(meta, REC_FINAL, sessionRec.seq)
  /\ ~\E i \in 0..(FirstInvalid(meta) - 1) :
        meta[i].type = REC_DEL /\ meta[i].startAddr = sessionRec.seq

\* C10: replay lists a session that has a START record and neither FINAL nor
\* DEL as an incomplete entry; after a power loss during the session its
\* size is the number of payload bytes programmed for the session.
C10_IncompleteSizeIsProgrammed ==
  [][(logging /\ StartOnly /\ PowerLoss) =>
       \E j \in DOMAIN files' :
         /\ files'[j].seq = sessionRec.seq
         /\ files'[j].incomplete
         /\ files'[j].size = curSize]_vars

\* the highest end address of the entries of a non-empty file list
HighestEnd(fs) ==
  CHOOSE e \in {fs[i].startAddr + fs[i].size : i \in DOMAIN fs} :
    \A i \in DOMAIN fs : fs[i].startAddr + fs[i].size <= e

\* C11: right after a replay the DATA write cursor is the maximum of
\* startAddr + size over the entries of the file list, and the start of the
\* DATA region when the list is empty.
C11_CursorIsHighestEnd ==
  dataWriteAddr = IF files = << >> THEN DATA_START ELSE HighestEnd(files)

\* a replay whose last entry does not end highest
C11_Witness ==
  /\ pc = "boot"
  /\ Len(files) >= 2
  /\ files[Len(files)].startAddr + files[Len(files)].size < dataWriteAddr

\* a statement of loop() ran to its end and it was no fast reset: a reboot
\* leaves gpsValid false and counts as an event, a fast reset erases META
Operated ==
  /\ events' = events \/ gpsValid'
  /\ \A i \in DOMAIN ops' : ops'[i].k = "erase" => ops'[i].a >= DATA_START

\* C12: the DATA write cursor never regresses: after every start, append,
\* stop, delete and replay (fast reset and power loss apart) it is at least
\* what it was before.
C12_CursorNeverRegresses == [][Operated => dataWriteAddr' >= dataWriteAddr]_vars

\* ------------------------------------------------------------ the writers alone
\* dataWriteStream and writeMetaRecord as functions of their inputs: the DATA
\* cursor at any address of the region (its end included) with the erase
\* pointer where startLogNow and loadMetaIndex put it, the journal cursor at
\* any slot (META_END included, as after a write into the last slot), a
\* session running.
WriterInit ==
  \E d \in DataImages, a \in DATA_START..DATA_END, s \in 0..MetaSlots :
    Loaded([Ram0([meta |-> [i \in 0..(MetaSlots - 1) |->
                              IF i < s THEN SampleStart(1) ELSE ErasedRec],
                  data |-> d])
              EXCEPT !.dataWriteAddr = a, !.curStartAddr = a,
                     !.nextEraseSectorBase = SectorBase(a),
                     !.metaWriteAddr = SlotAddr(s),
                     !.logging = TRUE, !.curSeq = 1], "write")

\* dataWriteStream(dataWriteAddr, buf, n) for every n the buffer can hold
WriteStream ==
  /\ pc = "write"
  /\ \E n \in 1..BufSize : Commit(dataWriteStream(Cur, Line(n)), "streamed")
  /\ UNCHANGED <<gpsValid, events>>

\* writeMetaRecord of a record of each type
WriteSlot ==
  /\ pc = "write"
  /\ \E type \in {REC_START, REC_FINAL, REC_DEL}, seq \in SampleSeqs :
       LET m == writeMetaRecord(Cur, type, seq, curStartAddr, curSize, 1, makeName(1))
       IN  Commit(m, IF m.ok THEN "slotted" ELSE "refused")
  /\ UNCHANGED <<gpsValid, events>>

WriterNext == WriteStream \/ WriteSlot

WriterSpec == WriterInit /\ [][WriterNext]_vars

PageOf(a) == a \div EXT_PAGE_SIZE

\* C13: every page program of the DATA writer and every journal slot write
\* has at least one byte and lies within one page.
C13_ProgramWithinOnePage ==
  \A i \in DOMAIN ops :
    ops[i].k \in {"prog", "meta"} =>
      ops[i].n >= 1 /\ PageOf(ops[i].a) = PageOf(ops[i].a + ops[i].n - 1)

\* a write that started inside a page and went on in the next page: two
\* page programs, the second at the page boundary
C13_Witness ==
  \E i \in DOMAIN ops : \E j \in DOMAIN ops :
    /\ j = i + 1
    /\ ops[i].k = "prog" /\ ops[j].k = "prog"
    /\ ops[i].a % EXT_PAGE_SIZE # 0
    /\ ops[j].a = ops[i].a + ops[i].n
    /\ ops[j].a % EXT_PAGE_SIZE = 0

\* C14: erase-before-program: every byte a page program of the DATA writer
\* targets is in the erased state at the moment it is programmed, whatever
\* replays, deletes, fast resets and power losses came before.
C14_EraseBeforeProgram ==
  \A i \in DOMAIN ops : ops[i].k = "prog" => ops[i].blank

\* a session writes over bytes an earlier session programmed: the step erases
\* the sector and then programs into it, with a file already in the index
C14_Witness ==
  /\ \E i \in DOMAIN ops : \E j \in DOMAIN ops :
       /\ i < j
       /\ ops[i].k = "erase" /\ ops[i].a >= DATA_START
       /\ ops[j].k = "prog" /\ SectorBase(ops[j].a) = ops[i].a
       /\ \E k \in DOMAIN files :
            /\ files[k].size > 0
            /\ SectorBase(files[k].startAddr) = ops[i].a
            /\ files[k].startAddr < ops[j].a

\* C15: erase-once: between two fast resets the erase pointer
\* nextEraseSectorBase never decreases, so no DATA sector is erased twice.
C15_ErasePointerNeverDecreases ==
  [][Operated => nextEraseSectorBase' >= nextEraseSectorBase]_vars

\* C16: a pending start with a valid GPS time is served by the next pass of
\* loop(): the session is Logging, no start is pending any more and a START
\* record was appended.
C16_PendingStartIsServed ==
  [][(pc = "pend" /\ pendingStart /\ gpsValid /\ events' = events)
       => (logging' /\ ~pendingStart' /\ Written({REC_START}) # {})]_vars

\* C17: the DATA writer programs and erases only inside [DATA_START, DATA_END),
\* a journal slot write lies inside [META_START, META_END); a sector erase
\* inside the journal is the fast reset's, which leaves the journal erased.
C17_WritesStayInRegion ==
  \A i \in DOMAIN ops :
    /\ ops[i].k = "prog" => DATA_START <= ops[i].a /\ ops[i].a + ops[i].n <= DATA_END
    /\ ops[i].k = "meta" => META_START <= ops[i].a /\ ops[i].a + ops[i].n <= META_END
    /\ ops[i].k = "erase" =>
         \/ DATA_START <= ops[i].a /\ ops[i].a + ops[i].n <= DATA_END
         \/ /\ META_START <= ops[i].a /\ ops[i].a + ops[i].n <= META_END
            /\ \A s \in DOMAIN meta : meta[s] = ErasedRec

\* the write that fills the region: its last page program ends at DATA_END
C17_Witness ==
  /\ fullStop
  /\ \E i \in DOMAIN ops : ops[i].k = "prog" /\ ops[i].a + ops[i].n = DATA_END

\* the finalize test of loop() runs for a session the full region stopped
ForcedFinalize == pc = "fin" /\ finalizeNeeded /\ fullStop /\ events' = events

\* C18: a write that exhausts the DATA region ends Logging, and the finalize
\* test of the same pass of loop() appends a FINAL record for the session
\* whose size is what was programmed (startAddr + size = DATA_END) and leaves
\* the session listed as complete.
C18_RegionFullFinalizes ==
  [][/\ (fullStop' /\ ~fullStop) => (~logging' /\ finalizeNeeded' /\ pc' # "idle")
     /\ ForcedFinalize =>
          \E r \in Written({REC_FINAL}) :
            /\ r.startAddr = curStartAddr
            /\ r.startAddr + r.size = DATA_END
            /\ \E j \in DOMAIN files' :
                 /\ files'[j].seq = r.seq /\ files'[j].startAddr = r.startAddr
                 /\ files'[j].size = r.size /\ ~files'[j].incomplete]_vars

\* C19: once the full DATA region has force-finalized a session, no start is
\* accepted (no START record is appended, Logging is not entered) until a
\* fast reset, whatever stops, deletes and replays come in between.
C19_NoStartAfterRegionFull ==
  [][(fullStop /\ ~logging /\ ~finalizeNeeded /\ Operated)
       => (Written({REC_START}) = {} /\ ~logging')]_vars

\* C20: writeMetaRecord fails and leaves the flash and the journal cursor as
\* they were when the next slot would end behind META_END; otherwise it
\* programs one slot of EXT_PAGE_SIZE bytes at the cursor, nothing else, and
\* moves the cursor on by one slot.
C20_JournalAppendFrame ==
  [][pc' \in {"slotted", "refused"} =>
       IF metaWriteAddr + EXT_PAGE_SIZE > META_END
       THEN /\ pc' = "refused"
            /\ meta' = meta /\ data' = data /\ ops' = << >>
            /\ metaWriteAddr' = metaWriteAddr
       ELSE /\ pc' = "slotted"
            /\ Len(ops') = 1
            /\ ops'[1].k = "meta" /\ ops'[1].a = metaWriteAddr /\ ops'[1].n = EXT_PAGE_SIZE
            /\ meta'[SlotOf(metaWriteAddr)] = RecAnd(meta[SlotOf(metaWriteAddr)], ops'[1].rec)
            /\ \A s \in DOMAIN meta : s # SlotOf(metaWriteAddr) => meta'[s] = meta[s]
            /\ data' = data
            /\ metaWriteAddr' = metaWriteAddr + EXT_PAGE_SIZE]_vars

\* the append was refused with the cursor at the end of the journal
C20_Witness == pc = "refused" /\ metaWriteAddr = META_END /\ ops = << >>

\* no slot of the journal is erased
JournalFull == \A s \in DOMAIN meta : ~isAllFF(meta[s])

\* the request with result m left flash, file list, session state and seq
\* counter as they are
LeftAlone(m) ==
  /\ m.meta = meta /\ m.data = data /\ m.files = files
  /\ m.logging = logging /\ m.pendingStart = pendingStart
  /\ m.finalizeNeeded = finalizeNeeded /\ m.curSeq = curSeq

\* C21: with the journal full a start request and a delete request fail and
\* leave the journal, the DATA region, the file list, the session state and
\* the seq counter exactly as they were.
C21_FullJournalRefuses ==
  JournalFull =>
    /\ (At("btn") /\ ~logging /\ ~pendingStart /\ gpsValid) =>
         \A now \in Times : LeftAlone(OnLogButton(Cur, now))
    /\ At("client") =>
         \A idx \in 0..(fileCount - 1), now \in Times : LeftAlone(OnDelete(Cur, idx, now))

\* the step erased a sector of the journal: the fast reset
FastReset == \E i \in DOMAIN ops' : ops'[i].k = "erase" /\ ops'[i].a < DATA_START

\* C22: a fast reset from any state ends idle with an empty file list and
\* both cursors at the start of their regions, and it touches the journal
\* only: it erases and programs no byte of the DATA region.
C22_FastResetTouchesJournalOnly ==
  [][FastReset =>
       /\ files' = << >> /\ ~logging' /\ ~pendingStart' /\ ~finalizeNeeded'
       /\ metaWriteAddr' = META_START /\ dataWriteAddr' = DATA_START
       /\ data' = data
       /\ \A i \in DOMAIN ops' : ops'[i].k = "erase" /\ ops'[i].a < DATA_START]_vars

\* the sequence s without its element at position i
Without(s, i) == [j \in 1..(Len(s) - 1) |-> IF j < i THEN s[j] ELSE s[j + 1]]

\* C23: a delete that succeeds appends one DEL record and nothing else: its
\* startAddr field is the seq of a listed entry, its own seq is new, the
\* replay that follows removes exactly that entry from the file list, and no
\* byte of the DATA region is erased or programmed.
C23_DeleteFrame ==
  [][Written({REC_DEL}) # {} =>
       /\ Len(ops') = 1
       /\ ops'[1].rec.seq > assigned
       /\ \E idx \in DOMAIN files :
            /\ files[idx].seq = ops'[1].rec.startAddr
            /\ files' = Without(files, idx)
       /\ data' = data]_vars

\* the slots holding a valid record in front of the first slot that holds none
ValidPrefix == {s \in DOMAIN meta : \A t \in 0..s : RecValid(meta[t])}

\* the slot behind the last valid record
AppendSlot == Cardinality(ValidPrefix)

\* C24: the journal is append-only: short of a fast reset no step erases or
\* re-programs a slot that holds a valid record, and every append goes to the
\* slot right behind the last valid record.
C24_JournalAppendOnly ==
  [][Operated =>
       /\ \A s \in ValidPrefix : meta'[s] = meta[s]
       /\ \A i \in DOMAIN ops' :
            ops'[i].k = "meta" => SlotOf(ops'[i].a) = AppendSlot + Cardinality({j \in 1..(i - 1) : ops'[j].k = "meta"})]_vars

\* C25: a half-written slot is free space: a record appended with success
\* over it reads back as the record that was written, valid for the next
\* replay.
C25_TornSlotIsFreeSpace ==
  [][\A i \in DOMAIN ops' :
       (/\ ops'[i].k = "meta" /\ SlotOf(ops'[i].a) \in DOMAIN meta
        /\ ~isAllFF(meta[SlotOf(ops'[i].a)]) /\ ~RecValid(meta[SlotOf(ops'[i].a)]))
         => (meta'[SlotOf(ops'[i].a)] = ops'[i].rec /\ RecValid(meta'[SlotOf(ops'[i].a)]))]_vars

\* the positions in the operations of the step that program a record of type t
Appends(t) == {i \in DOMAIN ops' : ops'[i].k = "meta" /\ ops'[i].rec.type = t}

\* C26: a session gets one START record when it starts and at most one FINAL
\* record: no step appends a FINAL record for a session whose FINAL record
\* is in the journal already.
C26_OneStartOneFinal ==
  [][/\ (logging' /\ ~logging) => Cardinality(Appends(REC_START)) = 1
     /\ Cardinality(Appends(REC_FINAL)) <= 1
     /\ \A r \in Written({REC_FINAL}) :
          \A s \in ValidPrefix :
            ~(/\ meta[s].type = REC_FINAL
              /\ meta[s].seq = r.seq /\ meta[s].startAddr = r.startAddr)]_vars

\* C27: one session at a time: a START record is appended only while no
\* session is Logging and none waits for its FINAL record, and a start is
\* never pending while a session is Logging.
C27_OneSessionAtATime ==
  [][/\ Written({REC_START}) # {} => (~logging /\ ~finalizeNeeded)
     /\ ~(logging' /\ pendingStart')]_vars

\* a session was started with an earlier session in the file list
C27_Witness ==
  /\ logging /\ Len(files) >= 1
  /\ \E i \in DOMAIN ops : ops[i].k = "meta" /\ ops[i].rec.type = REC_START

\* ------------------------------------------------------------ checksum alone
\* crcSimple as a function of the bytes it covers: buf holds the covered
\* bytes of a record (rec.b up to crc), of every record of RecAlphabet and of
\* an all-zero record; a step flips one bit of one byte.
RECURSIVE Pow2(_)
Pow2(k) == IF k = 0 THEN 1 ELSE 2 * Pow2(k - 1)

FlipBit(b, k) == IF (b \div Pow2(k)) % 2 = 1 THEN b - Pow2(k) ELSE b + Pow2(k)

CoveredLen == Len(CoveredBytes(ErasedRec))

CrcInputs ==
  {CoveredBytes(r) : r \in RecAlphabet} \cup {[i \in 1..CoveredLen |-> 0]}

CrcInit ==
  \E p \in CrcInputs : Loaded([Ram0(ErasedFlash) EXCEPT !.buf = p], "crc")

Flip ==
  /\ pc = "crc"
  /\ \E i \in 1..Len(buf), k \in 0..7 :
       /\ buf' = [buf EXCEPT ![i] = FlipBit(@, k)]
       /\ pc' = "flipped"
  /\ UNCHANGED <<meta, data, files, metaWriteAddr, dataWriteAddr, nextEraseSectorBase,
                 logging, pendingStart, curStartAddr, curSize, curSeq, curTime,
                 curName, finalizeNeeded, fullStop, gpsValid, ops, sessionRec,
                 appended, assigned, events, sent, reads>>

CrcSpec == CrcInit /\ [][Flip]_vars

\* C28: flipping any single bit of any byte the checksum covers changes the
\* checksum s = s * 131 + byte (mod 2^32), whatever the record holds.
C28_ChecksumSensitivity ==
  [][pc' = "flipped" => crcSimple(buf') # crcSimple(buf)]_vars

\* the top bit of the first covered byte was flipped: the byte the loop
\* multiplies most often
C28_Witness ==
  /\ pc = "flipped"
  /\ buf[1] = FlipBit(META_MAGIC % 256, 7)
  /\ \A i \in 2..Len(buf) : buf[i] = CoveredBytes(SampleStart(1))[i]

\* ------------------------------------------------------------ KML export
\* The /download_kml handler over one file of the DATA region.  A sample line
\* "lat,lon,elevation,time,speed" is scaled to one byte that carries a
\* position and a speed; sscanf accepts a line that begins with such a byte.
\* Any other byte is a line sscanf rejects.  sizeof(line) is scaled so that
\* a file can hold a line that does not fit.
NL == 10
CR == 13
JunkByte == 120
PointBase == 48
MaxPos == 2
MaxSpeed == 2
MaxBody == 5
KmlLineSize == 4

PointByte(pos, spd) == PointBase + (MaxSpeed + 1) * (pos - 1) + spd
PointBytes == {PointByte(p, s) : p \in 1..MaxPos, s \in 0..MaxSpeed}

RECURSIVE ReadChars(_, _, _, _)
ReadChars(d, addr, endAddr, line) ==
  IF addr < endAddr /\ Len(line) < KmlLineSize - 1
  THEN LET ch == d[addr]
       IN  IF ch = NL THEN [addr |-> addr + 1, line |-> line]
           ELSE IF ch = CR THEN ReadChars(d, addr + 1, endAddr, line)
           ELSE ReadChars(d, addr + 1, endAddr, Append(line, ch))
  ELSE [addr |-> addr, line |-> line]

\* a read bounded by the end of the DATA region, not by the end of the file
readLineFromFlashToRegionEnd(d, addr, endAddr) ==
  LET r == ReadChars(d, addr, DATA_END, << >>)
  IN  [addr |-> r.addr, line |-> r.line, ok |-> Len(r.line) > 0 \/ r.addr < endAddr]

\* addr is passed by reference: the result carries its new value
readLineFromFlash(d, addr, endAddr) ==
  LET r == ReadChars(d, addr, endAddr, << >>)
  IN  [addr |-> r.addr, line |-> r.line, ok |-> Len(r.line) > 0 \/ r.addr < endAddr]

\* sscanf(...) >= 5; lat/lon/alt are the position, spd the speed
parseCsvLine(line) ==
  IF line # << >> /\ line[1] \in PointBytes
  THEN [ok |-> TRUE, pos |-> (line[1] - PointBase) \div (MaxSpeed + 1) + 1,
        spd |-> (line[1] - PointBase) % (MaxSpeed + 1)]
  ELSE [ok |-> FALSE, pos |-> 0, spd |-> 0]

\* (uint8_t)(f * 0.9 * 255 + 0.5) for the fraction f = fn / fd of the chroma
Channel(fn, fd) == (459 * fn + fd) \div (2 * fd)

Abs(x) == IF x < 0 THEN 0 - x ELSE x

\* hsvToRgb(h, 1.0, 0.90) for the hue h = hn / hd; the result is <<r, g, b>>
hsvToRgb(hn, hd) ==
  LET c == Channel(1, 1)
      x == Channel(60 * hd - Abs((hn % (120 * hd)) - 60 * hd), 60 * hd)
  IN  IF hn < 60 * hd THEN <<c, x, 0>>
      ELSE IF hn < 120 * hd THEN <<x, c, 0>>
      ELSE IF hn < 180 * hd THEN <<0, c, x>>
      ELSE IF hn < 240 * hd THEN <<0, x, c>>
      ELSE IF hn < 300 * hd THEN <<x, 0, c>>
      ELSE <<c, 0, x>>

\* a ramp over the whole colour circle
speedToKmlColorFullCircle(sn, sd, vmax) ==
  LET v == IF vmax < 1 THEN 1 ELSE vmax
      tn == IF sn < 0 THEN 0 ELSE IF sn > sd * v THEN sd * v ELSE sn
      c == hsvToRgb(360 * tn, sd * v)
  IN  <<255, c[3], c[2], c[1]>>

\* speedToKmlColor(out, spd, vmax) for spd = sn / sd; out is "ffBBGGRR" as
\* <<alpha, b, g, r>>
speedToKmlColor(sn, sd, vmax) ==
  LET v == IF vmax < 1 THEN 1 ELSE vmax
      tn == IF sn < 0 THEN 0 ELSE IF sn > sd * v THEN sd * v ELSE sn
      c == hsvToRgb(300 * tn, sd * v)
  IN  <<255, c[3], c[2], c[1]>>

\* one call of readLineFromFlash as the history keeps it: the pass, addr
\* before and after, the result, and the point when the line parses
LineRead(pass, from, r, p) ==
  [pass |-> pass, from |-> from, to |-> r.addr, ok |-> r.ok,
   point |-> IF r.ok /\ p.ok THEN <<p.pos, p.spd>> ELSE << >>]

\* pass 1: the highest speed of the lines that parse
RECURSIVE FindVmax(_, _, _)
FindVmax(d, st, endAddr) ==
  IF st.addr < endAddr
  THEN LET r == readLineFromFlash(d, st.addr, endAddr)
           p == parseCsvLine(r.line)
           s1 == [st EXCEPT !.addr = r.addr, !.reads = Append(@, LineRead(1, st.addr, r, p))]
       IN  IF ~r.ok THEN s1
           ELSE FindVmax(d, [s1 EXCEPT !.vmax = IF p.ok /\ p.spd > @ THEN p.spd ELSE @],
                         endAddr)
  ELSE st

KmlItem(k, from, to, color) == [k |-> k, from |-> from, to |-> to, color |-> color]

\* the legend: vmax * k / 4 for k = 4 .. 0
Legend(vmax) ==
  [i \in 1..5 |-> KmlItem("legend", 0, 0, speedToKmlColor(vmax * (5 - i), 4, vmax))]

RECURSIVE Pass2(_, _, _, _)
\* a pass that gives up at the first line sscanf rejects
Pass2Aborting(d, st, endAddr, vmax) ==
  IF st.addr < endAddr
  THEN LET r == readLineFromFlash(d, st.addr, endAddr)
           p == parseCsvLine(r.line)
       IN  IF ~r.ok \/ ~p.ok THEN st
           ELSE LET s1 == [st EXCEPT !.addr = r.addr, !.haveStart = TRUE,
                                     !.startPos = IF st.haveStart THEN @ ELSE p.pos,
                                     !.endPos = p.pos, !.havePrev = TRUE,
                                     !.prevPos = p.pos, !.prevSpd = p.spd]
                IN  IF ~st.havePrev THEN Pass2(d, s1, endAddr, vmax)
                    ELSE Pass2(d, [s1 EXCEPT !.out = Append(@,
                                     KmlItem("seg", st.prevPos, p.pos,
                                             speedToKmlColor(st.prevSpd + p.spd, 2, vmax)))],
                               endAddr, vmax)
  ELSE st

\* pass 2: one segment per pair of consecutive points
Pass2(d, st, endAddr, vmax) ==
  IF st.addr < endAddr
  THEN LET r == readLineFromFlash(d, st.addr, endAddr)
           p == parseCsvLine(r.line)
           s0 == [st EXCEPT !.addr = r.addr, !.reads = Append(@, LineRead(2, st.addr, r, p))]
       IN  IF ~r.ok THEN s0
           ELSE IF ~p.ok THEN Pass2(d, s0, endAddr, vmax)
           ELSE LET s1 == [s0 EXCEPT !.haveStart = TRUE,
                                     !.startPos = IF st.haveStart THEN @ ELSE p.pos,
                                     !.endPos = p.pos, !.havePrev = TRUE,
                                     !.prevPos = p.pos, !.prevSpd = p.spd]
                IN  IF ~st.havePrev THEN Pass2(d, s1, endAddr, vmax)
                    ELSE Pass2(d, [s1 EXCEPT !.out = Append(@,
                                     KmlItem("seg", st.prevPos, p.pos,
                                             speedToKmlColor(st.prevSpd + p.spd, 2, vmax)))],
                               endAddr, vmax)
  ELSE st

\* the header line is read and not parsed
SkipHeader(pass, d, e) ==
  LET r == readLineFromFlash(d, e.startAddr, e.startAddr + e.size)
  IN  [addr |-> r.addr,
       read |-> LineRead(pass, e.startAddr, r, [ok |-> FALSE, pos |-> 0, spd |-> 0])]

\* the two passes of /download_kml over the entry e, size above 0: vmax as
\* the legend and the segments use it, and the state pass 2 ends in
DownloadKmlPasses(d, e) ==
  LET endAddr == e.startAddr + e.size
      h1 == SkipHeader(1, d, e)
      p1 == FindVmax(d, [addr |-> h1.addr, vmax |-> 0, reads |-> <<h1.read>>], endAddr)
      vmax == IF p1.vmax < 1 THEN 1 ELSE p1.vmax
      h2 == SkipHeader(2, d, e)
  IN  [vmax |-> vmax,
       st |-> Pass2(d, [addr |-> h2.addr, havePrev |-> FALSE, prevPos |-> 0,
                        prevSpd |-> 0, haveStart |-> FALSE, startPos |-> 0,
                        endPos |-> 0, out |-> << >>,
                        reads |-> Append(p1.reads, h2.read)], endAddr, vmax)]

\* the body of the response to /download_kml?i=idx for the entry e
DownloadKmlBody(d, e) ==
  IF e.size = 0 THEN <<KmlItem("empty", 0, 0, << >>)>>
  ELSE
    LET x == DownloadKmlPasses(d, e)
    IN  Legend(x.vmax) \o x.st.out \o
        (IF x.st.haveStart
         THEN <<KmlItem("start", x.st.startPos, x.st.startPos, << >>),
                KmlItem("end", x.st.endPos, x.st.endPos, << >>)>>
         ELSE << >>) \o
        <<KmlItem("close", 0, 0, << >>)>>

\* the files the export runs on: the header line, then up to MaxBody bytes
\* of sample lines, rejected lines, line feeds and carriage returns; an
\* entry of size 0 and a header cut short stand for sessions ended by power
\* loss
KmlBodies == UNION {[1..n -> PointBytes \cup {NL, CR, JunkByte}] : n \in 0..MaxBody}

KmlFile(body) == Header \o <<NL>> \o body

KmlSizes(body) == IF body = << >> THEN {0, HeaderLen, HeaderLen + 1} ELSE {Len(KmlFile(body))}

ExportInit ==
  \E body \in KmlBodies : \E size \in KmlSizes(body) :
    Loaded([Ram0([meta |-> ErasedFlash.meta,
                  data |-> [a \in DATA_START..(DATA_END - 1) |->
                              IF a - DATA_START < size
                              THEN KmlFile(body)[a - DATA_START + 1] ELSE FFByte]])
              EXCEPT !.files = <<[seq |-> 1, startAddr |-> DATA_START, size |-> size,
                                  time |-> 1, name |-> makeName(1),
                                  incomplete |-> size <= HeaderLen]>>,
                     !.dataWriteAddr = DATA_START + size, !.curSeq = 1], "web")

DownloadKml ==
  /\ pc = "web"
  /\ \E idx \in 0..(fileCount - 1) :
       /\ sent' = DownloadKmlBody(data, files[idx + 1])
       /\ reads' = IF files[idx + 1].size = 0 THEN << >>
                   ELSE DownloadKmlPasses(data, files[idx + 1]).st.reads
  /\ pc' = "sent"
  /\ UNCHANGED <<meta, data, files, metaWriteAddr, dataWriteAddr, nextEraseSectorBase,
                 logging, pendingStart, curStartAddr, curSize, curSeq, curTime,
                 curName, buf, finalizeNeeded, fullStop, gpsValid, ops, sessionRec,
                 appended, assigned, events>>

ExportSpec == ExportInit /\ [][DownloadKml]_vars

\* the bytes of the file of entry e, its lines without their line ends (a
\* line that fills the line buffer ends there), and the points of the lines
\* behind the header that parse
FileBytes(d, e) == [i \in 1..e.size |-> d[e.startAddr + i - 1]]

RECURSIVE LinesOf(_, _)
LinesOf(bytes, cur) ==
  IF bytes = << >> THEN (IF cur = << >> THEN << >> ELSE <<cur>>)
  ELSE IF Len(cur) = KmlLineSize - 1 THEN <<cur>> \o LinesOf(bytes, << >>)
  ELSE IF Head(bytes) = NL THEN <<cur>> \o LinesOf(Tail(bytes), << >>)
  ELSE IF Head(bytes) = CR THEN LinesOf(Tail(bytes), cur)
  ELSE LinesOf(Tail(bytes), Append(cur, Head(bytes)))

IsPointLine(line) == parseCsvLine(line).ok

KmlPoints(d, e) ==
  LET ls == LinesOf(FileBytes(d, e), << >>)
      good == IF ls = << >> THEN << >> ELSE SelectSeq(Tail(ls), IsPointLine)
  IN  [i \in DOMAIN good |-> parseCsvLine(good[i])]

IsSeg(x) == x.k = "seg"
IsMarker(x) == x.k \in {"start", "end"}
IsLegend(x) == x.k = "legend"

\* the segments join each point to the next
SegmentsJoin(P) ==
  LET segs == SelectSeq(sent, IsSeg)
  IN  /\ Len(segs) = (IF Len(P) = 0 THEN 0 ELSE Len(P) - 1)
      /\ \A i \in DOMAIN segs : segs[i].from = P[i].pos /\ segs[i].to = P[i + 1].pos

\* C29 as stated: N - 1 segments for N >= 2 points; with fewer than 2 points
\* the legend, no segment, and a Start and an End marker at one position.
C29_FewPointsStillMarked ==
  pc = "sent" =>
    LET P == KmlPoints(data, files[1])
        markers == SelectSeq(sent, IsMarker)
    IN  /\ Len(P) >= 2 => SegmentsJoin(P)
        /\ Len(P) < 2 =>
             /\ Len(SelectSeq(sent, IsLegend)) = 5
             /\ SelectSeq(sent, IsSeg) = << >>
             /\ Len(markers) = 2
             /\ markers[1].k = "start" /\ markers[2].k = "end"
             /\ markers[1].from = markers[2].from

\* C29: the export of a file of size 0 is the text "Empty file".  Any other
\* file gives the legend, one segment per pair of consecutive points that
\* parse (lines that do not parse are skipped) and, when at least one point
\* parses, a Start marker at the first point and an End marker at the last
\* (the same position for a single point); with no point there is no marker.
C29_ExportSegments ==
  pc = "sent" =>
    LET e == files[1]
        P == KmlPoints(data, e)
        markers == SelectSeq(sent, IsMarker)
    IN  IF e.size = 0 THEN sent = <<KmlItem("empty", 0, 0, << >>)>>
        ELSE /\ Len(SelectSeq(sent, IsLegend)) = 5
             /\ SegmentsJoin(P)
             /\ Len(sent) = 5 + Len(SelectSeq(sent, IsSeg)) + Len(markers) + 1
             /\ sent[Len(sent)].k = "close"
             /\ IF P = << >> THEN markers = << >>
                ELSE markers = <<KmlItem("start", P[1].pos, P[1].pos, << >>),
                                 KmlItem("end", P[Len(P)].pos, P[Len(P)].pos, << >>)>>

\* two points with a rejected line between them were joined by a segment
C29_Witness ==
  /\ pc = "sent"
  /\ Len(SelectSeq(sent, IsSeg)) = 1
  /\ \E a \in DATA_START..(DATA_END - 5) :
       /\ data[a] \in PointBytes /\ data[a + 1] = NL
       /\ data[a + 2] = JunkByte /\ data[a + 3] = NL
       /\ data[a + 4] \in PointBytes

\* "ffBBGGRR" of the hue hn / hd degrees
ColorAtHue(hn, hd) == LET c == hsvToRgb(hn, hd) IN <<255, c[3], c[2], c[1]>>

\* the colour of the law: hue 300 * speed / vmax degrees, kept within
\* [0, 300], for the speed sn / sd and vmax no less than 1
LawColor(sn, sd, vmax) ==
  LET v == IF vmax < 1 THEN 1 ELSE vmax
      hn == 300 * sn
      hd == sd * v
  IN  ColorAtHue(IF hn < 0 THEN 0 ELSE IF hn > 300 * hd THEN 300 * hd ELSE hn, hd)

RECURSIVE MaxSpd(_)
MaxSpd(P) ==
  IF P = << >> THEN 0
  ELSE LET r == MaxSpd(Tail(P)) IN IF Head(P).spd > r THEN Head(P).spd ELSE r

\* C30: the colour of a segment is the colour of the law for the speed of
\* the segment (the mean of its two points) and vmax, the highest speed of
\* the file and no less than 1: equal speeds give equal colours, speed 0 gives hue 0 degrees,
\* speed vmax gives hue 300 degrees; the legend shows the law at
\* vmax * k / 4.
C30_ColorLaw ==
  (pc = "sent" /\ files[1].size > 0) =>
    LET P == KmlPoints(data, files[1])
        vmax == IF MaxSpd(P) < 1 THEN 1 ELSE MaxSpd(P)
        segs == SelectSeq(sent, IsSeg)
        legend == SelectSeq(sent, IsLegend)
    IN  /\ Len(segs) = (IF P = << >> THEN 0 ELSE Len(P) - 1)
        /\ \A i \in DOMAIN segs :
             /\ segs[i].color = LawColor(P[i].spd + P[i + 1].spd, 2, vmax)
             /\ P[i].spd + P[i + 1].spd = 0 => segs[i].color = ColorAtHue(0, 1)
             /\ P[i].spd + P[i + 1].spd = 2 * vmax => segs[i].color = ColorAtHue(300, 1)
        /\ \A i \in DOMAIN segs : \A j \in DOMAIN segs :
             P[i].spd + P[i + 1].spd = P[j].spd + P[j + 1].spd
               => segs[i].color = segs[j].color
        /\ Len(legend) = 5
        /\ \A i \in DOMAIN legend : legend[i].color = LawColor(vmax * (5 - i), 4, vmax)
        /\ legend[1].color = ColorAtHue(300, 1) /\ legend[5].color = ColorAtHue(0, 1)

\* a segment at vmax and a slower one in the same export
C30_Witness ==
  /\ pc = "sent"
  /\ \E i \in DOMAIN sent : \E j \in DOMAIN sent :
       /\ sent[i].k = "seg" /\ sent[j].k = "seg"
       /\ sent[i].color = ColorAtHue(300, 1)
       /\ sent[j].color = ColorAtHue(150, 1)

\* ------------------------------------------------------------ the index as a fold
\* loadMetaIndex over journals that use every slot: START, FINAL and DEL
\* records of as many sessions as the journal has slots, over an erased DATA
\* region.
IndexSeqs == 1..MetaSlots

IndexAlphabet ==
  {ErasedRec} \cup {SampleStart(s) : s \in IndexSeqs} \cup
  {SampleFinal(s) : s \in IndexSeqs} \cup {SampleDel(s) : s \in IndexSeqs}

IndexJournals == [0..(MetaSlots - 1) -> IndexAlphabet]

IndexInit ==
  \E mt \in IndexJournals : Loaded(setup([meta |-> mt, data |-> ErasedFlash.data]), "boot")

IndexSpec == IndexInit /\ [][ReplayAgain]_vars

\* the fold the journal format defines, over the slots before slot k
RECURSIVE JournalFold(_, _)
JournalFold(mt, k) ==
  IF k = 0 THEN << >>
  ELSE LET fs  == JournalFold(mt, k - 1)
           rec == mt[k - 1]
           at  == {i \in DOMAIN fs : fs[i].seq = rec.seq}
       IN  CASE rec.type = REC_START ->
                  IF at = {} THEN Append(fs, EntryOf(rec, 0, TRUE)) ELSE fs
             [] rec.type = REC_FINAL ->
                  IF at = {} THEN Append(fs, EntryOf(rec, rec.size, FALSE))
                  ELSE [i \in DOMAIN fs |->
                          IF i \in at THEN EntryOf(rec, rec.size, FALSE) ELSE fs[i]]
             [] rec.type = REC_DEL ->
                  SelectSeq(fs, LAMBDA e : e.seq # rec.startAddr)
             [] OTHER -> fs

\* an entry without the size replay estimates for an incomplete entry
Folded(e) == IF e.incomplete THEN [e EXCEPT !.size = 0] ELSE e

\* the seqs with a START or FINAL record in the valid prefix that no later
\* DEL record of the prefix targets
LiveSeqs(mt) ==
  {mt[i].seq : i \in {i \in 0..(FirstInvalid(mt) - 1) :
     /\ mt[i].type \in {REC_START, REC_FINAL}
     /\ \A j \in (i + 1)..(FirstInvalid(mt) - 1) :
          ~(mt[j].type = REC_DEL /\ mt[j].startAddr = mt[i].seq)}}

\* C31: after every replay the File Index is the fold of the valid journal
\* prefix (START inserts an incomplete entry for a new seq, FINAL overwrites
\* or inserts a complete entry, DEL removes the entry of its target seq),
\* built from empty, and it has an entry for every seq with a START or FINAL
\* record that no later DEL record targets.
C31_IndexIsJournalFold ==
  pc \in {"boot", "again"} =>
    /\ [i \in DOMAIN files |-> Folded(files[i])]
         = [i \in DOMAIN JournalFold(meta, FirstInvalid(meta)) |->
              Folded(JournalFold(meta, FirstInvalid(meta))[i])]
    /\ {files[i].seq : i \in DOMAIN files} = LiveSeqs(meta)

\* the same, for the journals that hold no more live sessions than MAX_FILES
C31_FoldBelowCapacity ==
  (pc \in {"boot", "again"} /\ Cardinality(LiveSeqs(meta)) <= MAX_FILES) =>
    /\ [i \in DOMAIN files |-> Folded(files[i])]
         = [i \in DOMAIN JournalFold(meta, FirstInvalid(meta)) |->
              Folded(JournalFold(meta, FirstInvalid(meta))[i])]
    /\ {files[i].seq : i \in DOMAIN files} = LiveSeqs(meta)

\* ------------------------------------------------------------ C32 .. C36
\* the journal as the step's operations before the j-th have left it
RECURSIVE JournalAt(_)
JournalAt(j) ==
  IF j <= 1 THEN meta
  ELSE LET op == ops'[j - 1]
       IN  IF op.k = "erase" THEN EraseMeta(JournalAt(j - 1), op.a)
           ELSE IF op.k = "meta" THEN ProgMeta(JournalAt(j - 1), op.a, op.rec)
           ELSE JournalAt(j - 1)

\* C32: START is the durability point: when a byte of the session is
\* programmed, the journal already holds the session's START record in full,
\* and the byte lies at or after the startAddr of that record.
C32_StartBeforePayload ==
  [][\A j \in DOMAIN ops' :
       ops'[j].k = "prog" =>
         /\ \E i \in DOMAIN meta : JournalAt(j)[i] = sessionRec' /\ RecValid(sessionRec')
         /\ sessionRec'.type = REC_START
         /\ sessionRec'.startAddr <= ops'[j].a]_vars

\* C33: the buffer never holds more than its capacity and is flushed whenever
\* it reaches the threshold: after every logAppend it holds fewer bytes than
\* the threshold, and after a session start, a stop and a finalize it is
\* empty.
C33_BufferBounded ==
  /\ [](Len(buf) <= BufSize /\ Len(buf) < FlushThreshold)
  /\ [][/\ Written({REC_START}) # {} => buf' = << >>
        /\ Written({REC_FINAL}) # {} => buf' = << >>
        /\ (logging /\ ~logging') => buf' = << >>
        /\ (finalizeNeeded /\ ~finalizeNeeded') => buf' = << >>]_vars

\* a sample was buffered, and the session stopped with bytes in the buffer
C33_Witness ==
  /\ ~logging /\ buf = << >>
  /\ \E r \in {ops[i].rec : i \in {j \in DOMAIN ops : ops[j].k = "meta"}} : r.type = REC_FINAL
  /\ \E i \in DOMAIN ops : ops[i].k = "prog" /\ i < Len(ops)

\* the bytes programmed so far for the running session
SessionBytes == curStartAddr..(curStartAddr + curSize - 1)

\* C34: while a session is logging, no step (sample append, delete request
\* with its replay, stop) erases or programs a byte already programmed for
\* the session.
C34_SessionBytesKept ==
  [][logging =>
       \A i \in DOMAIN ops' :
         ops'[i].k \in {"erase", "prog"} => OpRange(ops'[i]) \cap SessionBytes = {}]_vars

\* C35: the byte ranges [startAddr, startAddr + size) of distinct File Index
\* entries are pairwise disjoint, and a session that starts begins at or
\* after the end of every entry.
C35_EntriesDisjoint ==
  /\ [](\A i, j \in DOMAIN files : i # j => Range(files[i]) \cap Range(files[j]) = {})
  /\ [][Written({REC_START}) # {} =>
          \A j \in DOMAIN files : curStartAddr' >= files[j].startAddr + files[j].size]_vars

\* C36: while a session is logging, the DATA write cursor is the session's
\* start address plus its size, after every operation, a delete request and
\* its replay included.
C36_CursorIsStartPlusSize == logging => dataWriteAddr = curStartAddr + curSize

\* ------------------------------------------------------------ C37
\* the reads of one pass, and the points it visited
ReadsOf(p) == SelectSeq(reads, LAMBDA r : r.pass = p)

PointsOf(p) ==
  LET rs == SelectSeq(reads, LAMBDA r : r.pass = p /\ r.point # << >>)
  IN  [i \in DOMAIN rs |-> rs[i].point]

\* C37: an export of a stored file (size above 0) terminates: each of the
\* two passes starts at the entry's start address, every line read moves the
\* read address forward and never past the entry's end address, a pass makes
\* no more reads than the file has bytes and ends at the end address; both
\* passes visit the same sequence of valid points; and the closing document
\* elements are the last thing sent, whatever the payload holds (empty
\* lines, lines longer than the line buffer, lines that do not parse).
C37_ExportTerminates ==
  (pc = "sent" /\ files[1].size > 0) =>
    LET e == files[1]
        endAddr == e.startAddr + e.size
    IN  /\ \A p \in {1, 2} :
             LET rs == ReadsOf(p)
             IN  /\ rs # << >> /\ rs[1].from = e.startAddr
                 /\ \A i \in DOMAIN rs :
                      /\ rs[i].from < rs[i].to /\ rs[i].to <= endAddr
                      /\ i > 1 => rs[i].from = rs[i - 1].to
                 /\ Len(rs) <= e.size
                 /\ rs[Len(rs)].to = endAddr
        /\ PointsOf(1) = PointsOf(2)
        /\ sent # << >> /\ sent[Len(sent)].k = "close"
        /\ \A i \in 1..(Len(sent) - 1) : sent[i].k # "close"

\* a line of rejected bytes that fills the line buffer was cut there, and
\* the rest of that line was read as a point by both passes
C37_Witness ==
  /\ pc = "sent" /\ files[1].size > 0
  /\ \E i \in DOMAIN reads : i < Len(reads) /\
       /\ reads[i].pass = 2 /\ reads[i + 1].pass = 2
       /\ reads[i].to - reads[i].from = KmlLineSize - 1
       /\ \A a \in reads[i].from..(reads[i].to - 1) : data[a] = JunkByte
       /\ reads[i + 1].point # << >>
  /\ PointsOf(1) # << >>
====
